---- MODULE Spec2Model ----
(***************************************************************************)
(* A model of the chat relay: the ChatServer actor (src/src/server.rs),    *)
(* which owns `sessions` and `rooms` and handles one message at a time,    *)
(* and the WsChatSession actor (src/src/session.rs).                       *)
(***************************************************************************)
EXTENDS Integers, Sequences, FiniteSets, TLC

(***************************************************************************)
(* Bounds of the model.                                                    *)
(***************************************************************************)
\* rng.gen::<usize>() draws from 0..MaxId (usize, cut down).
MaxId == 1
\* At most MaxConn Connect messages are sent in a behaviour.
MaxConn == 2

Ids == 0..MaxId
\* A Recipient<Message>: the address of one session actor.  Every session
\* actor connects once, with its own address.
Addrs == 1..MaxConn
\* Room names a client may ask for.
RoomNames == {"Main", "test"}
\* Texts a client may send.
Texts == {"hi"}
Steps == {"e2e4"}

VARIABLES
    sessions,       \* ChatServer.sessions: id -> Recipient<Message>
    rooms,          \* ChatServer.rooms: room name -> set of ids
    visitor_count,  \* ChatServer.visitor_count (AtomicUsize)
    nextAddr,       \* the address the next session actor will have
    sent,           \* the send_message calls of the last handler, in order:
                    \* [room, text, skip, to], `to` the addresses do_send reached
    last,           \* the last message handled by a ChatServer driven on its own,
                    \* and what the handler found:
                    \* [op, id, name, text, addr, ret, known, nrooms, pknown, rep]
    sess,           \* the WsChatSession actors, by address: the struct's fields
                    \* (id, hb, room, name) and the actor's context (run, wait,
                    \* resp, due), with what it has done (ndisc, why, nread)
    mailbox,        \* the ChatServer's mailbox: the messages sent to it, in order
    inbox,          \* each session's mailbox: the server::Message texts sent to it
    out,            \* the frames the last session callback wrote to its peer
    now,            \* Instant::now()
    server_up       \* whether the ChatServer actor is alive

regVars == <<sessions, rooms, visitor_count, nextAddr, sent, last>>
sessVars == <<sess, mailbox, inbox, out, now, server_up>>
vars == <<sessions, rooms, visitor_count, nextAddr, sent, last,
          sess, mailbox, inbox, out, now, server_up>>

NoId == -1
NoAddr == 0

\* All the orders in which a HashMap/HashSet iteration may enumerate S.
Orders(S) ==
    {f \in [1..Cardinality(S) -> S] : \A i, j \in 1..Cardinality(S) : f[i] = f[j] => i = j}

(***************************************************************************)
(* ChatServer::send_message: the addresses that get Message(message).      *)
(***************************************************************************)
send_message_noskip(ss, rms, room, skip_id) ==
    IF room \in DOMAIN rms
    THEN {ss[id] : id \in {i \in rms[room] : i \in DOMAIN ss}}
    ELSE {}

send_message_or_main(ss, rms, room, skip_id) ==
    LET r == IF room \in DOMAIN rms THEN room ELSE "Main"
    IN  {ss[id] : id \in {i \in rms[r] : i # skip_id /\ i \in DOMAIN ss}}

send_message(ss, rms, room, skip_id) ==
    IF room \in DOMAIN rms
    THEN {ss[id] : id \in {i \in rms[room] : i # skip_id /\ i \in DOMAIN ss}}
    ELSE {}

\* One send_message call, as recorded in `sent`.
Call(ss, rms, room, message, skip_id) ==
    [room |-> room, text |-> message, skip |-> skip_id,
     to |-> send_message(ss, rms, room, skip_id)]

\* rooms.entry(name).or_insert_with(HashSet::new).insert(id)
EntryInsert(rms, name, id) ==
    IF name \in DOMAIN rms
    THEN [rms EXCEPT ![name] = @ \cup {id}]
    ELSE [r \in DOMAIN rms \cup {name} |-> IF r = name THEN {id} ELSE rms[r]]

\* for (n, sessions) in &mut self.rooms { if sessions.remove(&id) { rooms.push(n) } }:
\* the rooms after the loop, and the names pushed.
RemoveFromNone(rms, id) == rms

RemoveAndDropEmpty(rms, id) ==
    [r \in {q \in DOMAIN rms : rms[q] \ {id} # {}} |-> rms[r] \ {id}]

RemoveFromAll(rms, id) == [r \in DOMAIN rms |-> rms[r] \ {id}]

Vacated(rms, id) == {r \in DOMAIN rms : id \in rms[r]}

\* for room in rooms { self.send_message(&room, "Someone disconnected", 0) }
VacateCalls(ss, rms, order) ==
    [i \in 1..Len(order) |-> Call(ss, rms, order[i], "Someone disconnected", 0)]

\* sessions.insert(id, addr)
SessionsInsert(ss, id, addr) ==
    [i \in DOMAIN ss \cup {id} |-> IF i = id THEN addr ELSE ss[i]]

\* sessions.remove(&id)
SessionsKeep(ss, id) == ss

SessionsRemove(ss, id) == [i \in DOMAIN ss \ {id} |-> ss[i]]

\* sessions.remove(&msg.id).is_some()
RemovedAlways(ss, id) == TRUE

Removed(ss, id) == id \in DOMAIN ss

\* format!("Total visitors {}", count)
TotalVisitors(count) == "Total visitors " \o ToString(count)

Req(op, id, name, text, addr, ret, known) ==
    [op |-> op, id |-> id, name |-> name, text |-> text, addr |-> addr,
     ret |-> ret, known |-> known,
     nrooms |-> Cardinality({r \in DOMAIN rooms : id \in rooms[r]}),
     pknown |-> last.known,
     rep |-> last.op = op /\ last.id = id /\ last.name = name /\ last.text = text]

(***************************************************************************)
(* ChatServer::new                                                         *)
(***************************************************************************)
ChatServerNew ==
    /\ sessions = << >>
    /\ rooms = [r \in {"Main"} |-> {}]
    /\ visitor_count = 0

RegistryInit ==
    /\ ChatServerNew
    /\ nextAddr = 1
    /\ sent = << >>
    /\ last = [op |-> "new", id |-> NoId, name |-> "", text |-> "", addr |-> NoAddr,
               ret |-> NoId, known |-> FALSE, nrooms |-> 0, pknown |-> FALSE, rep |-> FALSE]

\* The ChatServer on its own: no session actor exists.
Init ==
    /\ RegistryInit
    /\ sess = << >>
    /\ mailbox = << >>
    /\ inbox = << >>
    /\ out = << >>
    /\ now = 0
    /\ server_up = TRUE

(***************************************************************************)
(* Handler<Connect>: `id` is what rng.gen::<usize>() returns.              *)
(***************************************************************************)
HandleConnectNoticeLast(addr, id) ==
    LET ss     == SessionsInsert(sessions, id, addr)
        rms    == EntryInsert(rooms, "Main", id)
        count  == visitor_count
    IN  /\ sessions' = ss
        /\ rooms' = rms
        /\ visitor_count' = visitor_count + 1
        /\ sent' = <<Call(ss, rms, "Main", "Someone joined", 0),
                     Call(ss, rms, "Main", TotalVisitors(count), 0)>>

HandleConnectCountAfter(addr, id) ==
    LET joined == Call(sessions, rooms, "Main", "Someone joined", 0)
        ss     == SessionsInsert(sessions, id, addr)
        rms    == EntryInsert(rooms, "Main", id)
        count  == visitor_count + 1
    IN  /\ sessions' = ss
        /\ rooms' = rms
        /\ visitor_count' = visitor_count + 1
        /\ sent' = <<joined, Call(ss, rms, "Main", TotalVisitors(count), 0)>>

HandleConnect(addr, id) ==
    LET joined == Call(sessions, rooms, "Main", "Someone joined", 0)
        ss     == SessionsInsert(sessions, id, addr)
        rms    == EntryInsert(rooms, "Main", id)
        count  == visitor_count
    IN  /\ sessions' = ss
        /\ rooms' = rms
        /\ visitor_count' = visitor_count + 1
        /\ sent' = <<joined, Call(ss, rms, "Main", TotalVisitors(count), 0)>>

(***************************************************************************)
(* Handler<Disconnect>                                                     *)
(***************************************************************************)
HandleDisconnect(id) ==
    LET was  == Removed(sessions, id)
        ss   == SessionsRemove(sessions, id)
        rms  == IF was THEN RemoveFromAll(rooms, id) ELSE rooms
        left == IF was THEN Vacated(rooms, id) ELSE {}
    IN  /\ sessions' = ss
        /\ rooms' = rms
        /\ \E order \in Orders(left) : sent' = VacateCalls(ss, rms, order)
        /\ UNCHANGED visitor_count

(***************************************************************************)
(* Handler<ClientMessage> and Handler<ChessGame>                           *)
(***************************************************************************)
HandleClientMessage(id, msg, room) ==
    /\ sent' = <<Call(sessions, rooms, room, msg, id)>>
    /\ UNCHANGED <<sessions, rooms, visitor_count>>

HandleChessGame(id, step, room) ==
    /\ sent' = <<Call(sessions, rooms, room, step, id)>>
    /\ UNCHANGED <<sessions, rooms, visitor_count>>

(***************************************************************************)
(* Handler<Join>                                                           *)
(***************************************************************************)
HandleJoinNoticeFirst(id, name) ==
    LET removed == RemoveFromAll(rooms, id)
        left    == Vacated(rooms, id)
        rms     == EntryInsert(removed, name, id)
    IN  /\ rooms' = rms
        /\ \E order \in Orders(left) :
              sent' = VacateCalls(sessions, rooms, order)
                        \o <<Call(sessions, rms, name, "Someone connected", id)>>
        /\ UNCHANGED <<sessions, visitor_count>>

HandleJoin(id, name) ==
    LET removed == RemoveFromAll(rooms, id)
        left    == Vacated(rooms, id)
        rms     == EntryInsert(removed, name, id)
    IN  /\ rooms' = rms
        /\ \E order \in Orders(left) :
              sent' = VacateCalls(sessions, removed, order)
                        \o <<Call(sessions, rms, name, "Someone connected", id)>>
        /\ UNCHANGED <<sessions, visitor_count>>

(***************************************************************************)
(* Handler<ListRooms>: the keys of `rooms`, in any order.                  *)
(***************************************************************************)
ListRoomsResults == Orders(DOMAIN rooms)

HandleListRooms ==
    /\ sent' = << >>
    /\ UNCHANGED <<sessions, rooms, visitor_count>>

(***************************************************************************)
(* The ChatServer driven by any sequence of messages.                      *)
(***************************************************************************)
Connect ==
    /\ nextAddr <= MaxConn
    /\ \E id \in Ids :
          /\ HandleConnect(nextAddr, id)
          /\ last' = Req("Connect", id, "", "", nextAddr, id, id \in DOMAIN sessions)
    /\ nextAddr' = nextAddr + 1
    /\ UNCHANGED sessVars

Disconnect ==
    \E id \in Ids :
       /\ HandleDisconnect(id)
       /\ last' = Req("Disconnect", id, "", "", NoAddr, NoId, id \in DOMAIN sessions)
       /\ UNCHANGED <<nextAddr, sessVars>>

ClientMessage ==
    \E id \in Ids, msg \in Texts, room \in RoomNames :
       /\ HandleClientMessage(id, msg, room)
       /\ last' = Req("ClientMessage", id, room, msg, NoAddr, NoId, id \in DOMAIN sessions)
       /\ UNCHANGED <<nextAddr, sessVars>>

ChessGame ==
    \E id \in Ids, step \in Steps, room \in RoomNames :
       /\ HandleChessGame(id, step, room)
       /\ last' = Req("ChessGame", id, room, step, NoAddr, NoId, id \in DOMAIN sessions)
       /\ UNCHANGED <<nextAddr, sessVars>>

Join ==
    \E id \in Ids, name \in RoomNames :
       /\ HandleJoin(id, name)
       /\ last' = Req("Join", id, name, "", NoAddr, NoId, id \in DOMAIN sessions)
       /\ UNCHANGED <<nextAddr, sessVars>>

ListRooms ==
    /\ HandleListRooms
    /\ last' = Req("ListRooms", NoId, "", "", NoAddr, NoId, FALSE)
    /\ UNCHANGED <<nextAddr, sessVars>>

Next == Connect \/ Disconnect \/ ClientMessage \/ ChessGame \/ Join \/ ListRooms

Spec == Init /\ [][Next]_vars

(***************************************************************************)
(* WsChatSession (src/src/session.rs).                                     *)
(***************************************************************************)
\* Time units between two heartbeat ticks, and without a ping or pong before
\* the session gives up.
HEARTBEAT_INTERVAL == 5
CLIENT_TIMEOUT == 10

\* The clock stops at MaxTime.
MaxTime == 21
\* A frame that makes the session write to the ChatServer is taken only
\* while fewer than MaxPending messages wait in the server's mailbox.
MaxPending == 1

\* Option<String>
None == [some |-> FALSE, v |-> ""]
Some(str) == [some |-> TRUE, v |-> str]

\* What a session's request to the server has resolved to.
NoResp == [kind |-> "none", id |-> NoId, rooms |-> << >>]
ErrResp == [kind |-> "err", id |-> NoId, rooms |-> << >>]
IdResp(id) == [kind |-> "id", id |-> id, rooms |-> << >>]
RoomsResp(list) == [kind |-> "rooms", id |-> NoId, rooms |-> list]

\* The id a session holds before the server has answered its Connect.
UnassignedId == 0

\* The struct as built for a new connection at time t.
NewSession(t) ==
    [id |-> UnassignedId, hb |-> t, room |-> "", name |-> None,
     run |-> "Created", wait |-> "none", resp |-> NoResp, due |-> -1,
     ndisc |-> 0, why |-> "", nread |-> 0]

\* A message to the ChatServer.
Msg(op, id, name, text, addr) ==
    [op |-> op, id |-> id, name |-> name, text |-> text, addr |-> addr]

\* A frame written to the peer.
TextFrame(str) == [kind |-> "text", text |-> str]
PingFrame == [kind |-> "ping", text |-> ""]
PongFrame == [kind |-> "pong", text |-> ""]
CloseFrame == [kind |-> "close", text |-> ""]

\* What a callback does: the struct and context after it, the messages it
\* sends to the ChatServer and the frames it writes.
Eff(s, msgs, frames) == [s |-> s, msgs |-> msgs, out |-> frames]

\* ctx.stop()
Stop(s, why) ==
    IF s.run = "Running" THEN [s EXCEPT !.run = "Stopping", !.why = why] ELSE s

(***************************************************************************)
(* Text: a sequence of tokens, each a word (a string without white space)  *)
(* or one white-space character.                                           *)
(***************************************************************************)
Space == " "
Tab == "\t"
White == {Space, Tab}

RECURSIVE Concat(_)
Concat(toks) == IF toks = << >> THEN "" ELSE Head(toks) \o Concat(Tail(toks))

RECURSIVE TrimStart(_)
TrimStart(toks) ==
    IF toks # << >> /\ Head(toks) \in White THEN TrimStart(Tail(toks)) ELSE toks

RECURSIVE TrimEnd(_)
TrimEnd(toks) ==
    IF toks # << >> /\ toks[Len(toks)] \in White
    THEN TrimEnd(SubSeq(toks, 1, Len(toks) - 1))
    ELSE toks

TrimStartOnly(toks) == TrimStart(toks)

\* text.trim()
Trim(toks) == TrimEnd(TrimStart(toks))

\* The words of the model that begin with '/'.
SlashWords == {"/chess_step", "/list", "/join", "/name", "/nope"}

\* m.starts_with('/')
StartsWithSlash(toks) == toks # << >> /\ Head(toks) \in SlashWords

\* m.splitn(2, ' ').collect()
Splitn2(toks) ==
    LET spaces == {i \in 1..Len(toks) : toks[i] = Space}
    IN  IF spaces = {}
        THEN <<Concat(toks)>>
        ELSE LET i == CHOOSE k \in spaces : \A j \in spaces : k <= j
             IN  <<Concat(SubSeq(toks, 1, i - 1)), Concat(SubSeq(toks, i + 1, Len(toks)))>>

\* format!("{:?}", m)
RECURSIVE Escaped(_)
Escaped(toks) ==
    IF toks = << >> THEN ""
    ELSE (IF Head(toks) = Tab THEN "\\t" ELSE Head(toks)) \o Escaped(Tail(toks))

Debug(toks) == "\"" \o Escaped(toks) \o "\""

ChatTextRaw(name, m) == Concat(m)

\* format!("{}: {}", name, m), or m
ChatText(name, m) == IF name.some THEN name.v \o ": " \o Concat(m) ELSE Concat(m)

\* The text frames a peer sends.
TextFrames ==
    { <<"hi">>, <<Space, "hi", Tab>>, << >>,
      <<"/list">>,
      <<"/join", Space, "test">>, <<"/join">>, <<"/join", Space>>,
      <<"/name", Space, "bob">>, <<"/name">>,
      <<"/chess_step", Space, "e2e4">>, <<"/chess_step">>,
      <<"/nope", Space, "x">> }

FrameKinds == {"Ping", "Pong", "Binary", "Close", "Continuation", "Nop", "Err", "End"}

\* Result<ws::Message, ws::ProtocolError>, and the end of the stream.
Frames ==
    {[kind |-> k, toks |-> << >>] : k \in FrameKinds}
        \cup {[kind |-> "Text", toks |-> t] : t \in TextFrames}

(***************************************************************************)
(* StreamHandler::handle, the ws::Message::Text arm.                       *)
(***************************************************************************)
HandleText(s, toks) ==
    LET m == Trim(toks)
        v == Splitn2(m)
    IN  IF StartsWithSlash(m)
        THEN CASE v[1] = "/chess_step" ->
                    IF Len(v) = 2
                    THEN Eff(s, <<Msg("ChessGame", s.id, s.room, v[2], NoAddr)>>, << >>)
                    ELSE Eff(s, << >>, <<TextFrame("step is wrong")>>)
               [] v[1] = "/list" ->
                    Eff([s EXCEPT !.wait = "list",
                                  !.resp = IF server_up THEN NoResp ELSE ErrResp],
                        <<Msg("ListRooms", NoId, "", "", NoAddr)>>, << >>)
               [] v[1] = "/join" ->
                    IF Len(v) = 2
                    THEN Eff([s EXCEPT !.room = v[2]],
                             <<Msg("Join", s.id, v[2], "", NoAddr)>>,
                             <<TextFrame("joined")>>)
                    ELSE Eff(s, << >>, <<TextFrame("!!! room name is required")>>)
               [] v[1] = "/name" ->
                    IF Len(v) = 2
                    THEN Eff([s EXCEPT !.name = Some(v[2])], << >>, << >>)
                    ELSE Eff(s, << >>, <<TextFrame("!!! name is required")>>)
               [] OTHER ->
                    Eff(s, << >>, <<TextFrame("!!! unknown command: " \o Debug(m))>>)
        ELSE Eff(s, <<Msg("ClientMessage", s.id, s.room, ChatText(s.name, m), NoAddr)>>,
                 << >>)

(***************************************************************************)
(* StreamHandler::handle at time t (and StreamHandler::finished, which     *)
(* stops the actor when the stream ends).                                  *)
(***************************************************************************)
HandleFrame(s, f, t) ==
    CASE f.kind = "Err" -> Eff(Stop(s, "error"), << >>, << >>)
      [] f.kind = "Ping" -> Eff([s EXCEPT !.hb = t], << >>, <<PongFrame>>)
      [] f.kind = "Pong" -> Eff([s EXCEPT !.hb = t], << >>, << >>)
      [] f.kind = "Text" -> HandleText(s, f.toks)
      [] f.kind = "Binary" -> Eff(s, << >>, << >>)
      [] f.kind = "Close" -> Eff(Stop(s, "close"), << >>, <<CloseFrame>>)
      [] f.kind = "Continuation" -> Eff(Stop(s, "continuation"), << >>, << >>)
      [] f.kind = "Nop" -> Eff(s, << >>, << >>)
      [] f.kind = "End" -> Eff(Stop(s, "finished"), << >>, << >>)

(***************************************************************************)
(* WsChatSession::hb: the closure run every HEARTBEAT_INTERVAL.            *)
(***************************************************************************)
TimedOutAtLimit(t, hb) == t - hb >= CLIENT_TIMEOUT

TimedOut(t, hb) == t - hb > CLIENT_TIMEOUT

\* act.addr.do_send(server::Disconnect { id: act.id })
HbSilent(s) == << >>

HbNotify(s) == <<Msg("Disconnect", s.id, "", "", NoAddr)>>

HandleHb(s, t) ==
    IF TimedOut(t, s.hb)
    THEN Eff(Stop(s, "timeout"), HbNotify(s), << >>)
    ELSE Eff(s, << >>, <<PingFrame>>)

\* ctx.run_interval: the next tick is due one interval after this one.
Rearm(e) == [e EXCEPT !.s.due = @ + HEARTBEAT_INTERVAL]

(***************************************************************************)
(* Actor::started: start the heartbeat, send Connect and wait for the id.  *)
(***************************************************************************)
HandleStarted(s, a, t) ==
    Eff([s EXCEPT !.run = "Running", !.due = t + HEARTBEAT_INTERVAL,
                  !.wait = "connect",
                  !.resp = IF server_up THEN NoResp ELSE ErrResp],
        <<Msg("Connect", NoId, "", "", a)>>, << >>)

HandleConnectedKeepId(s) ==
    LET resumed == [s EXCEPT !.wait = "none", !.resp = NoResp]
    IN  IF s.resp.kind = "id"
        THEN Eff(resumed, << >>, << >>)
        ELSE Eff(Stop(resumed, "connect"), << >>, << >>)

\* The closure run with the answer to Connect.
HandleConnected(s) ==
    LET resumed == [s EXCEPT !.wait = "none", !.resp = NoResp]
    IN  IF s.resp.kind = "id"
        THEN Eff([resumed EXCEPT !.id = s.resp.id], << >>, << >>)
        ELSE Eff(Stop(resumed, "connect"), << >>, << >>)

\* The closure run with the answer to ListRooms.
HandleListed(s) ==
    LET resumed == [s EXCEPT !.wait = "none", !.resp = NoResp]
    IN  IF s.resp.kind = "rooms"
        THEN Eff(resumed, << >>, [i \in 1..Len(s.resp.rooms) |-> TextFrame(s.resp.rooms[i])])
        ELSE Eff(resumed, << >>, << >>)

(***************************************************************************)
(* Actor::stopping                                                         *)
(***************************************************************************)
HandleStopping(s) ==
    Eff([s EXCEPT !.run = "Stopped"], <<Msg("Disconnect", s.id, "", "", NoAddr)>>, << >>)

\* Handler<server::Message>
HandleMessage(s, text) == Eff(s, << >>, <<TextFrame(text)>>)

(***************************************************************************)
(* The session actors' steps.                                              *)
(***************************************************************************)
NumDisconnects(msgs) == Len(SelectSeq(msgs, LAMBDA m : m.op = "Disconnect"))

\* addr.send(..): the request carries the channel of the answer, here the
\* address of the session that waits for it.
Addressed(a, msgs) ==
    [i \in 1..Len(msgs) |->
        IF msgs[i].op = "ListRooms" THEN [msgs[i] EXCEPT !.addr = a] ELSE msgs[i]]

\* do_send / send: a message to a dead server is lost.
Apply(a, e) ==
    /\ sess' = [sess EXCEPT ![a] = [e.s EXCEPT !.ndisc = @ + NumDisconnects(e.msgs)]]
    /\ mailbox' = IF server_up THEN mailbox \o Addressed(a, e.msgs) ELSE mailbox
    /\ out' = e.out
    /\ UNCHANGED <<regVars, now, server_up>>

ReadyWhileWaiting(a) == sess[a].run = "Running"

\* The context takes the next event only when it waits for no answer.
Ready(a) == sess[a].run = "Running" /\ sess[a].wait = "none"

Started(a) ==
    /\ sess[a].run = "Created"
    /\ Apply(a, HandleStarted(sess[a], a, now))
    /\ UNCHANGED inbox

Connected(a) ==
    /\ sess[a].run = "Running"
    /\ sess[a].wait = "connect"
    /\ sess[a].resp.kind # "none"
    /\ Apply(a, HandleConnected(sess[a]))
    /\ UNCHANGED inbox

Listed(a) ==
    /\ sess[a].run = "Running"
    /\ sess[a].wait = "list"
    /\ sess[a].resp.kind # "none"
    /\ Apply(a, HandleListed(sess[a]))
    /\ UNCHANGED inbox

Frame(a, arriving) ==
    /\ Ready(a)
    /\ \E f \in arriving :
          LET e == HandleFrame(sess[a], f, now)
          IN  /\ e.msgs # << >> => Len(mailbox) < MaxPending
              /\ Apply(a, e)
    /\ UNCHANGED inbox

\* A heartbeat tick that reads t from the clock.
Hb(a, t) ==
    /\ Ready(a)
    /\ Apply(a, HandleHb(sess[a], t))
    /\ UNCHANGED inbox

\* The heartbeat tick of the timer: it comes when it is due and is re-armed.
Tick(a) ==
    /\ Ready(a)
    /\ sess[a].due = now
    /\ Apply(a, Rearm(HandleHb(sess[a], now)))
    /\ UNCHANGED inbox

Message(a) ==
    /\ Ready(a)
    /\ inbox[a] # << >>
    /\ Apply(a, HandleMessage(sess[a], Head(inbox[a])))
    /\ inbox' = [inbox EXCEPT ![a] = Tail(@)]

\* The actor is dropped, its mailbox with it.
Stopping(a) ==
    /\ sess[a].run = "Stopping"
    /\ Apply(a, HandleStopping(sess[a]))
    /\ inbox' = [inbox EXCEPT ![a] = << >>]

(***************************************************************************)
(* The ChatServer taking the next message of its mailbox.                  *)
(***************************************************************************)
\* Recipient::do_send of every call, to the sessions that still run.
Deliver(ib, calls) ==
    [a \in DOMAIN ib |->
        IF sess[a].run = "Stopped" THEN ib[a]
        ELSE ib[a] \o [i \in 1..Len(SelectSeq(calls, LAMBDA c : a \in c.to)) |->
                          SelectSeq(calls, LAMBDA c : a \in c.to)[i].text]]

\* The next message of the mailbox is an op.
Pending(op) == server_up /\ mailbox # << >> /\ Head(mailbox).op = op

Serve(op) ==
    /\ Pending(op)
    /\ mailbox' = Tail(mailbox)
    /\ inbox' = Deliver(inbox, sent')
    /\ UNCHANGED <<nextAddr, last, out, now, server_up>>

ServeConnect ==
    LET m == Head(mailbox)
    IN  /\ Pending("Connect")
        /\ \E id \in Ids :
              /\ HandleConnect(m.addr, id)
              /\ sess' = [sess EXCEPT ![m.addr].resp = IdResp(id)]
        /\ Serve("Connect")

ServeDisconnect ==
    LET m == Head(mailbox)
    IN  /\ Pending("Disconnect")
        /\ HandleDisconnect(m.id)
        /\ Serve("Disconnect")
        /\ UNCHANGED sess

ServeClientMessage ==
    LET m == Head(mailbox)
    IN  /\ Pending("ClientMessage")
        /\ HandleClientMessage(m.id, m.text, m.name)
        /\ Serve("ClientMessage")
        /\ UNCHANGED sess

ServeChessGame ==
    LET m == Head(mailbox)
    IN  /\ Pending("ChessGame")
        /\ HandleChessGame(m.id, m.text, m.name)
        /\ Serve("ChessGame")
        /\ UNCHANGED sess

ServeJoin ==
    LET m == Head(mailbox)
    IN  /\ Pending("Join")
        /\ HandleJoin(m.id, m.name)
        /\ Serve("Join")
        /\ UNCHANGED sess

\* The session that asked is the one waiting for this list.
ServeListRooms ==
    /\ Pending("ListRooms")
    /\ HandleListRooms
    /\ \E list \in ListRoomsResults :
          sess' = [sess EXCEPT ![Head(mailbox).addr].resp = RoomsResp(list)]
    /\ Serve("ListRooms")

\* The ChatServer goes away: its mailbox is dropped and every request that
\* waits for an answer resolves to an error.
ServerGone ==
    /\ server_up
    /\ server_up' = FALSE
    /\ mailbox' = << >>
    /\ sess' = [a \in DOMAIN sess |->
                  IF sess[a].wait # "none" /\ sess[a].resp.kind = "none"
                  THEN [sess[a] EXCEPT !.resp = ErrResp]
                  ELSE sess[a]]
    /\ UNCHANGED <<regVars, inbox, out, now>>

(***************************************************************************)
(* Time.  A timer fires when it is due and a callback that can run does so *)
(* before the clock moves on; the ChatServer answers before it does too.   *)
(***************************************************************************)
Urgent(a) ==
    \/ sess[a].run \in {"Created", "Stopping"}
    \/ sess[a].run = "Running" /\ (sess[a].wait # "none" \/ sess[a].due <= now)

Advance(d) ==
    /\ now + d <= MaxTime
    /\ mailbox = << >>
    /\ \A a \in DOMAIN sess : ~Urgent(a)
    /\ now' = now + d
    /\ UNCHANGED <<regVars, sess, mailbox, inbox, out, server_up>>

(***************************************************************************)
(* One session actor and the ChatServer.                                   *)
(***************************************************************************)
SessionInit ==
    /\ RegistryInit
    /\ now = 0
    /\ sess = [a \in {1} |-> NewSession(now)]
    /\ mailbox = << >>
    /\ inbox = [a \in {1} |-> << >>]
    /\ out = << >>
    /\ server_up = TRUE

\* The clock readings a heartbeat tick may make when time is left out: at
\* the limit of CLIENT_TIMEOUT since the last ping or pong, and past it.
Readings(a) == {sess[a].hb + CLIENT_TIMEOUT, sess[a].hb + CLIENT_TIMEOUT + 1}

\* The protocol: every frame, and heartbeat ticks that read any time.
SessionNext ==
    \/ \E a \in DOMAIN sess : Started(a)
    \/ \E a \in DOMAIN sess : Connected(a)
    \/ \E a \in DOMAIN sess : Listed(a)
    \/ \E a \in DOMAIN sess : Frame(a, Frames)
    \/ \E a \in DOMAIN sess : \E t \in Readings(a) : Hb(a, t)
    \/ \E a \in DOMAIN sess : Message(a)
    \/ \E a \in DOMAIN sess : Stopping(a)
    \/ ServeConnect
    \/ ServeDisconnect
    \/ ServeClientMessage
    \/ ServeChessGame
    \/ ServeJoin
    \/ ServeListRooms
    \/ ServerGone

SessionSpec == SessionInit /\ [][SessionNext]_vars

\* The heartbeat: the clock moves one time unit at a time and a tick comes
\* when it is due; the peer sends control frames, chat text and /list.
HeartbeatFrames ==
    {f \in Frames : f.kind = "Text" => f.toks \in {<<"hi">>, <<"/list">>}}

HeartbeatNext ==
    \/ \E a \in DOMAIN sess : Started(a)
    \/ \E a \in DOMAIN sess : Connected(a)
    \/ \E a \in DOMAIN sess : Listed(a)
    \/ \E a \in DOMAIN sess : Frame(a, HeartbeatFrames)
    \/ \E a \in DOMAIN sess : Tick(a)
    \/ \E a \in DOMAIN sess : Message(a)
    \/ \E a \in DOMAIN sess : Stopping(a)
    \/ ServeConnect
    \/ ServeDisconnect
    \/ ServeClientMessage
    \/ ServeListRooms
    \/ ServerGone
    \/ Advance(1)

HeartbeatSpec == SessionInit /\ [][HeartbeatNext]_vars

(***************************************************************************)
(* Two session actors, A and B, and the ChatServer.  The peer of A joins,  *)
(* names itself, chats, lists and may close at any time; the peer of B     *)
(* joins and listens.  They send at most MaxFrames frames that make a      *)
(* session write to the ChatServer.                                        *)
(***************************************************************************)
MaxFrames == 3

A == 1
B == 2

ChatTexts(a) ==
    IF a = A
    THEN {<<"hi">>, <<Space, "hi", Tab>>,
          <<"/join", Space, "test">>, <<"/name", Space, "bob">>, <<"/list">>}
    ELSE {<<"/join", Space, "test">>}

ChatFrames(a) ==
    {f \in Frames :
        IF f.kind = "Text" THEN f.toks \in ChatTexts(a) ELSE a = A /\ f.kind = "Close"}

\* One more frame that wrote to the ChatServer has been read.
Counted(e) == IF e.msgs # << >> THEN [e EXCEPT !.s.nread = @ + 1] ELSE e

\* The frames read so far that wrote to the ChatServer.
FramesRead == sess[A].nread + sess[B].nread

\* The session a reads the frame f.
ReadFrame(a, f) ==
    /\ Ready(a)
    /\ LET e == HandleFrame(sess[a], f, now)
       IN  /\ e.msgs # << >> => FramesRead < MaxFrames /\ Len(mailbox) < MaxPending
           /\ Apply(a, Counted(e))
    /\ UNCHANGED inbox

\* The next frame of the stream of a.
Read(a) == \E f \in ChatFrames(a) : ReadFrame(a, f)

ChatInit ==
    /\ RegistryInit
    /\ now = 0
    /\ sess = [a \in {A, B} |-> NewSession(now)]
    /\ mailbox = << >>
    /\ inbox = [a \in {A, B} |-> << >>]
    /\ out = << >>
    /\ server_up = TRUE

ChatNext ==
    \/ \E a \in DOMAIN sess : Started(a)
    \/ \E a \in DOMAIN sess : Connected(a)
    \/ \E a \in DOMAIN sess : Listed(a)
    \/ \E a \in DOMAIN sess : Read(a)
    \/ \E a \in DOMAIN sess : Message(a)
    \/ \E a \in DOMAIN sess : Stopping(a)
    \/ ServeConnect
    \/ ServeDisconnect
    \/ ServeClientMessage
    \/ ServeJoin
    \/ ServeListRooms

ChatSpec == ChatInit /\ [][ChatNext]_vars

(***************************************************************************)
(* A and B and the ChatServer, for chat and game.  The peer of A chats,    *)
(* plays and joins; the peer of B joins and listens; neither closes.       *)
(***************************************************************************)
GameTexts(a) ==
    IF a = A
    THEN {<<"hi">>, <<"/chess_step", Space, "e2e4">>, <<"/join", Space, "test">>}
    ELSE {<<"/join", Space, "test">>}

GameFrames(a) == {f \in Frames : f.kind = "Text" /\ f.toks \in GameTexts(a)}

Play(a) == \E f \in GameFrames(a) : ReadFrame(a, f)

GameNext ==
    \/ \E a \in DOMAIN sess : Started(a)
    \/ \E a \in DOMAIN sess : Connected(a)
    \/ \E a \in DOMAIN sess : Play(a)
    \/ \E a \in DOMAIN sess : Message(a)
    \/ ServeConnect
    \/ ServeClientMessage
    \/ ServeChessGame
    \/ ServeJoin

GameSpec == ChatInit /\ [][GameNext]_vars

(***************************************************************************)
(* Properties of the ChatServer.                                           *)
(***************************************************************************)
Registered(ss, rms, room) == {i \in rms[room] : i \in DOMAIN ss}

IsBroadcast(op) == op \in {"ClientMessage", "ChessGame"}

\* C1: the id a Connect returns is not a key of `sessions` when that Connect
\* is handled, so a Connect never overwrites an entry of `sessions`.
C1_ConnectIdFresh == last.op = "Connect" => ~last.known

\* C2: right after a Connect the returned id is a key of `sessions`, is in
\* "Main" and in no other room, and no other id's membership has changed.
C2_ConnectMembership ==
    [][last'.op = "Connect" =>
          /\ last'.ret \in DOMAIN sessions'
          /\ \A r \in DOMAIN rooms' : last'.ret \in rooms'[r] <=> r = "Main"
          /\ DOMAIN rooms' = DOMAIN rooms
          /\ \A r \in DOMAIN rooms : rooms'[r] \ {last'.ret} = rooms[r] \ {last'.ret}]_vars

\* C3: on Connect both notices reach every registered member of "Main",
\* the newly connected session included (a member whose id is the skip-id 0
\* is left aside here: the statement takes 0 to be no session's id).
C3_ConnectNoticesReachAll ==
    last.op = "Connect" =>
        /\ Len(sent) = 2
        /\ sent[1].text = "Someone joined"
        /\ \A i \in Registered(sessions, rooms, "Main") \ {0} :
              sessions[i] \in sent[1].to /\ sessions[i] \in sent[2].to

\* C3 as amended: "Someone joined" reaches exactly the sessions registered
\* and in "Main" before the Connect (never the new session), "Total visitors
\* <n>" exactly those registered and in "Main" after it, the new session
\* among them; both skip a member whose id is 0.
C3_ConnectNoticesAmended ==
    [][last'.op = "Connect" =>
          /\ Len(sent') = 2
          /\ sent'[1].text = "Someone joined"
          /\ sent'[1].to = {sessions[i] : i \in Registered(sessions, rooms, "Main") \ {0}}
          /\ last'.addr \notin sent'[1].to
          /\ sent'[2].text = TotalVisitors(visitor_count)
          /\ sent'[2].to = {sessions'[i] : i \in Registered(sessions', rooms', "Main") \ {0}}
          /\ (last'.ret # 0 => last'.addr \in sent'[2].to)]_vars

\* A Connect that told a member of "Main" that someone joined, and told the
\* new session the visitor count.
C3_Witness ==
    /\ last.op = "Connect"
    /\ sent[1].to # {}
    /\ last.addr \in sent[2].to

\* C4: after Join(id, R) the id is in R and in no other room, however many
\* rooms held it before, and a repeated Join(id, R) leaves `rooms` as it is.
C4_JoinExactlyOneRoom ==
    [][last'.op = "Join" =>
          /\ last'.name \in DOMAIN rooms'
          /\ \A r \in DOMAIN rooms' : last'.id \in rooms'[r] <=> r = last'.name
          /\ (last'.rep => rooms' = rooms)]_vars

\* A Join of an id that two rooms held.
C4_Witness == last.op = "Join" /\ last.nrooms = 2

\* C5: no id is in the member set of two rooms.
C5_AtMostOneRoom ==
    \A i \in Ids : Cardinality({r \in DOMAIN rooms : i \in rooms[r]}) <= 1

\* C6: a broadcast (ClientMessage or ChessGame) from id to room R sends the
\* text once to every registered member of R other than id and to nobody
\* else, sends nothing when R does not exist, and changes neither `sessions`
\* nor `rooms`.
C6_BroadcastSkipsSender ==
    [][IsBroadcast(last'.op) =>
          /\ sessions' = sessions
          /\ rooms' = rooms
          /\ Len(sent') = 1
          /\ sent'[1].text = last'.text
          /\ (last'.id \in DOMAIN sessions => sessions[last'.id] \notin sent'[1].to)
          /\ IF last'.name \in DOMAIN rooms
             THEN sent'[1].to =
                    {sessions[i] : i \in Registered(sessions, rooms, last'.name) \ {last'.id}}
             ELSE sent'[1].to = {}]_vars

\* A chat message of a member of a room that reached another member.
C6_Witness ==
    /\ last.op = "ClientMessage"
    /\ last.known
    /\ last.id # 0
    /\ last.name \in DOMAIN rooms
    /\ last.id \in rooms[last.name]
    /\ sent[1].to # {}

\* C7: a Disconnect of an id that is not a key of `sessions` (a second
\* Disconnect of the same id among them) changes neither `sessions` nor
\* `rooms` and sends nothing.
C7_DisconnectIdempotent ==
    [][(last'.op = "Disconnect" /\ ~last'.known) =>
          /\ sessions' = sessions
          /\ rooms' = rooms
          /\ sent' = << >>]_vars

\* A Disconnect right after the Disconnect that removed the same id.
C7_Witness ==
    /\ last.op = "Disconnect"
    /\ last.rep
    /\ last.pknown
    /\ ~last.known

\* C8: after Disconnect(id) the id is in neither `sessions` nor any room.
C8_DisconnectPurges ==
    last.op = "Disconnect" =>
        /\ last.id \notin DOMAIN sessions
        /\ \A r \in DOMAIN rooms : last.id \notin rooms[r]

\* C8 as amended: after Disconnect(id) the id is not a key of `sessions`,
\* and if it was one when the Disconnect was handled it is in no room.
C8_DisconnectPurgesRegistered ==
    last.op = "Disconnect" =>
        /\ last.id \notin DOMAIN sessions
        /\ (last.known => \A r \in DOMAIN rooms : last.id \notin rooms[r])

\* A Disconnect of a registered id that was in a room.
C8_Witness == last.op = "Disconnect" /\ last.known /\ last.nrooms >= 1

(***************************************************************************)
(* Properties of the session.                                              *)
(***************************************************************************)
\* A stopped session has sent Disconnect once.
SentOnce(s) == s.run = "Stopped" => s.ndisc = 1

\* What a session has sent of Disconnect: once from stopping(), and once
\* more from the heartbeat closure when that is what stopped it.
SentByPath(s) ==
    CASE s.run = "Stopped" -> s.ndisc = IF s.why = "timeout" THEN 2 ELSE 1
      [] s.run = "Stopping" -> s.ndisc = IF s.why = "timeout" THEN 1 ELSE 0
      [] OTHER -> s.ndisc = 0

\* C9 as stated: on every termination path (close frame, heartbeat timeout,
\* framing error, continuation frame, end of stream, failed Connect) a
\* stopped session has sent Disconnect exactly once.
C9_DisconnectExactlyOnce == \A a \in DOMAIN sess : SentOnce(sess[a])

\* C9 as the code has it: a stopped session has sent Disconnect exactly once
\* on every termination path but the heartbeat timeout, where it has sent it
\* twice (the heartbeat closure, then stopping()); it never stops without
\* sending it.
C9_DisconnectByPath == \A a \in DOMAIN sess : SentByPath(sess[a])

\* A session stopped by the heartbeat timeout.
C9_Witness ==
    \E a \in DOMAIN sess :
        sess[a].run = "Stopped" /\ sess[a].why = "timeout" /\ sess[a].ndisc = 2

\* Time since the last ping or pong of the peer.
Elapsed(a) == now - sess[a].hb

Suspended(a) == sess[a].run = "Running" /\ sess[a].wait = "list"

\* The ListRooms requests of a that the ChatServer has not yet answered.
ListsPending(a) ==
    Len(SelectSeq(mailbox, LAMBDA m : m.op = "ListRooms" /\ m.addr = a))

JoinsProcessed == \A i \in DOMAIN mailbox : mailbox[i].op # "Join"

\* The ChatServer takes the chat text `text` that A sent to room `room`.
ServesChatOfA(room, text) ==
    /\ Pending("ClientMessage")
    /\ Head(mailbox).name = room
    /\ Head(mailbox).text = text
    /\ mailbox' = Tail(mailbox)
    /\ server_up'

\* C12: A and B have connected and both have sent /join test, both joins
\* have been processed, A has no display name and sends "hi": when the
\* ChatServer takes this message B gets "hi" and A does not.
C12_HiReachesB ==
    [][/\ Ready(A) /\ Ready(B)
       /\ sess[A].room = "test" /\ sess[B].room = "test"
       /\ JoinsProcessed
       /\ ServesChatOfA("test", "hi")
       => /\ inbox'[B] = Append(inbox[B], "hi")
          /\ inbox'[A] = inbox[A]]_vars

\* The text frames that are protocol errors, and the reply to each.
MissingRoom == {<<"/join">>, <<"/join", Space>>}
MissingName == {<<"/name">>}
UnknownCommand == {<<"/nope", Space, "x">>}

ErrorReply(toks) ==
    CASE toks \in MissingRoom -> "!!! room name is required"
      [] toks \in MissingName -> "!!! name is required"
      [] toks \in UnknownCommand -> "!!! unknown command: \"/nope x\""

ProtocolErrors ==
    {f \in Frames : f.kind = "Text" /\ f.toks \in MissingRoom \cup MissingName \cup UnknownCommand}

\* C13: a /join without a room name, a /name without a name and an unknown
\* /command each make the session write exactly one text frame, the error
\* text, and nothing else: no message goes to the ChatServer, the session's
\* room and name and every other field stay as they were, sessions and
\* rooms of the ChatServer stay as they were, and the session goes on
\* taking events.
C13_ProtocolErrorsLocal ==
    [][\A a \in DOMAIN sess : \A f \in ProtocolErrors :
          Frame(a, {f}) =>
              /\ out' = <<TextFrame(ErrorReply(f.toks))>>
              /\ mailbox' = mailbox
              /\ sess'[a] = sess[a]
              /\ rooms' = rooms /\ sessions' = sessions
              /\ Ready(a)']_vars

\* A session that has joined "test" and named itself has been told that a
\* room name is required.
C13_Witness ==
    /\ Ready(1)
    /\ sess[1].room = "test"
    /\ sess[1].name = Some("bob")
    /\ out = <<TextFrame("!!! room name is required")>>

\* The frames of the chat text "hi", bare and with white space around it.
HiFrames == {f \in Frames : f.kind = "Text" /\ f.toks \in {<<"hi">>, <<Space, "hi", Tab>>}}

\* The sessions that are registered under a member id of `room` other than
\* `sender`.
OtherMembers(room, sender) ==
    IF room \in DOMAIN rooms
    THEN {sessions[i] : i \in (rooms[room] \cap DOMAIN sessions) \ {sender}}
    ELSE {}

\* C14: when A reads the chat text "hi" (with or without white space
\* around it) it sends the ChatServer exactly "bob: hi" if it has named
\* itself bob and exactly "hi" if it has no name, for its room and under
\* its id; and when the ChatServer takes that message, every session
\* registered under another member id of the room gets exactly this text,
\* no other session gets anything, and A gets nothing.
C14_ChatTextFormat ==
    [][/\ \A f \in HiFrames :
             ReadFrame(A, f) =>
                 mailbox' = Append(mailbox,
                     Msg("ClientMessage", sess[A].id, sess[A].room,
                         IF sess[A].name = Some("bob") THEN "bob: hi" ELSE "hi", NoAddr))
       /\ \A room \in {"", "test"}, text \in {"hi", "bob: hi"} :
             ServesChatOfA(room, text) =>
                 /\ inbox'[A] = inbox[A]
                 /\ \A b \in DOMAIN sess \ {A} :
                       inbox'[b] = IF b \in OtherMembers(room, Head(mailbox).id)
                                   THEN Append(inbox[b], text)
                                   ELSE inbox[b]]_vars

\* B has been sent "bob: hi".
C14_Witness ==
    /\ inbox[B] # << >>
    /\ inbox[B][Len(inbox[B])] = "bob: hi"
    /\ sess[A].name = Some("bob")

\* C15: "Main" is always a key of rooms, and no step of the ChatServer
\* (Connect, Join, Disconnect, ClientMessage, ChessGame, ListRooms) removes
\* a key of rooms, whether or not its member set has become empty.
C15_RoomsOnlyGrow ==
    /\ []("Main" \in DOMAIN rooms)
    /\ [][DOMAIN rooms \subseteq DOMAIN rooms']_vars

\* A Disconnect has emptied a room and has left every room empty.
C15_Witness ==
    /\ last.op = "Disconnect" /\ last.known /\ last.nrooms >= 1
    /\ "test" \in DOMAIN rooms
    /\ \A r \in DOMAIN rooms : rooms[r] = {}

\* The sessions registered under the ids of `members`.
SessionsOf(members) == {sessions[i] : i \in members \cap DOMAIN sessions}

\* The "Someone disconnected" calls of a Join of `id` are the first calls of
\* the handler, one for each room that contained id.
VacateBroadcasts(id) ==
    /\ Len(sent') = Cardinality(Vacated(rooms, id)) + 1
    /\ {sent'[i].room : i \in 1..(Len(sent') - 1)} = Vacated(rooms, id)
    /\ \A i \in 1..(Len(sent') - 1) :
          sent'[i].text = "Someone disconnected" /\ sent'[i].skip = 0

\* The "Someone connected" call of a Join of `id` to `name` is the last call
\* of the handler; it reaches every registered member of the room other
\* than id and never id.
ConnectedBroadcast(id, name) ==
    LET c == sent'[Len(sent')]
    IN  /\ c.room = name /\ c.text = "Someone connected" /\ c.skip = id
        /\ c.to = SessionsOf(rooms'[name] \ {id})
        /\ id \in DOMAIN sessions => sessions[id] \notin c.to

\* C16 as stated: on Join(id, R) each room that id leaves gets a "Someone
\* disconnected" broadcast that reaches every remaining registered member
\* of that room and the departing id itself, and R gets a "Someone
\* connected" broadcast that reaches every member other than id and never
\* id (an id that is the skip-id 0 is left aside here: the statement takes
\* the skip-id 0 to exclude nobody).
C16_JoinBroadcastAsymmetry ==
    [][last'.op = "Join" =>
          /\ VacateBroadcasts(last'.id)
          /\ \A i \in 1..(Len(sent') - 1) :
                /\ SessionsOf((rooms[sent'[i].room] \ {last'.id}) \ {0}) \subseteq sent'[i].to
                /\ last'.id \in DOMAIN sessions \ {0} => sessions[last'.id] \in sent'[i].to
          /\ ConnectedBroadcast(last'.id, last'.name)]_vars

\* C16 as the code has it: the "Someone disconnected" broadcasts are sent
\* with skip-id 0 after id has been removed from the rooms it leaves, so
\* each reaches exactly the remaining registered members whose id is not 0,
\* and never the departing id; the "Someone connected" broadcast reaches
\* every registered member of R other than id and never id.
C16_JoinBroadcastsAfterRemoval ==
    [][last'.op = "Join" =>
          /\ VacateBroadcasts(last'.id)
          /\ \A i \in 1..(Len(sent') - 1) :
                /\ sent'[i].to = SessionsOf((rooms[sent'[i].room] \ {last'.id}) \ {0})
                /\ last'.id \in DOMAIN sessions => sessions[last'.id] \notin sent'[i].to
          /\ ConnectedBroadcast(last'.id, last'.name)]_vars

\* A Join of a registered id that left one room to a member that stayed and
\* arrived in a room with a member.
C16_Witness ==
    /\ last.op = "Join" /\ last.known
    /\ Len(sent) = 2
    /\ sent[1].to # {}
    /\ sent[2].to # {}

\* Every Connect adds one to the visitor counter and no other message
\* changes it.
CounterCountsConnects ==
    visitor_count' = IF last'.op = "Connect" THEN visitor_count + 1 ELSE visitor_count

\* C17 as stated: the counter goes up by exactly one on every Connect and
\* is changed by nothing else, and the notice of a Connect is "Total
\* visitors n" with n the counter after the increment.
C17_VisitorCounterAfter ==
    [][/\ CounterCountsConnects
       /\ last'.op = "Connect" =>
             sent'[2].text = "Total visitors " \o ToString(visitor_count')]_vars

\* C17 as the code has it: the counter goes up by exactly one on every
\* Connect and is changed by nothing else, and the notice of a Connect is
\* "Total visitors n" with n the counter before the increment, so that the
\* k-th Connect announces k - 1.
C17_VisitorCounterBefore ==
    [][/\ CounterCountsConnects
       /\ last'.op = "Connect" =>
             sent'[2].text = "Total visitors " \o ToString(visitor_count)]_vars

\* The second Connect has announced "Total visitors 1" to a session.
C17_Witness ==
    /\ last.op = "Connect"
    /\ visitor_count = 2
    /\ sent[2].text = "Total visitors 1"
    /\ sent[2].to # {}

\* The ChatServer takes a chat text or a chess step sent to `room`.
ServesBroadcastTo(room) ==
    /\ Pending("ClientMessage") \/ Pending("ChessGame")
    /\ Head(mailbox).name = room
    /\ mailbox' = Tail(mailbox)
    /\ server_up'

Connecting(a) == sess[a].run = "Running" /\ sess[a].wait = "connect"

\* The messages a step has added to the mailbox of the ChatServer.
NewRequests ==
    IF Len(mailbox') > Len(mailbox)
    THEN {mailbox'[i] : i \in (Len(mailbox) + 1)..Len(mailbox')}
    ELSE {}

Ghosts == UNION {rooms[r] : r \in DOMAIN rooms} \ DOMAIN sessions

\* C20: with the ChatServer driven by sessions that send Connect, then
\* Join and chat texts, then Disconnect, every id in a room's member set
\* is a key of sessions.
C20_NoGhostMembers == Ghosts = {}

====
